---- MODULE Spec2Model ----
(***************************************************************************)
(* The React hook useMessengerContract                                     *)
(* (src/client/hooks/useMessengerContract.ts).                             *)
(*                                                                         *)
(* State: the hook's three useState cells (processing, ownMessages,        *)
(* messengerContract), its inputs (the currentAccount prop and the value   *)
(* of getEtherum() at the last render), the dependency of the listener     *)
(* effect as of its last run, the NewMessage listeners registered on       *)
(* contract objects, and the asynchronous calls that are suspended at an   *)
(* await.                                                                  *)
(*                                                                         *)
(* Specifications:                                                         *)
(*   Spec      the hook as mounted.  The effect of lines 199-202 holds the *)
(*             expression statements `getMessengerContract;` and           *)
(*             `getOwnMessages;`: the functions are named, not called, so  *)
(*             no contract is ever bound, no listener registered and       *)
(*             sendMessage returns at line 153.                            *)
(*   SpecSync  renders, plus getMessengerContract and getOwnMessages       *)
(*             applied directly from the closure of the current render,    *)
(*             their continuations and the NewMessage callback: the        *)
(*             records.                                                    *)
(*   SpecSend  Spec plus getMessengerContract applied directly and the     *)
(*             continuations of sendMessage: the processing flag.          *)
(*   SpecCalls SpecSync and SpecSend together.                             *)
(* sendMessage writes processing only and the records half writes          *)
(* ownMessages only; the two halves share the connection.                  *)
(***************************************************************************)
EXTENDS Integers, Sequences, FiniteSets, TLC

(* ---------------------------------------------------------------- bounds *)
MaxMsgs == 2        \* longest ownMessages explored
MaxFetched == 2     \* longest sequence a remote getOwnMessages returns
MaxHandles == 2     \* ethers.Contract objects created in one run
MaxConnects == 1    \* getMessengerContract calls suspended at getSigner
MaxFetches == 1     \* getOwnMessages calls suspended at the remote read
MaxSends == 2       \* sendMessage calls suspended at post or at wait

(* ------------------------------------------------------------ value sets *)
\* An address is a string, modelled as the sequence of the characters after
\* "0x"; `undefined` is the empty sequence.
Undefined == << >>
xabc == <<"a", "b", "c">>
xABC == <<"A", "B", "C">>
xdef == <<"d", "e", "f">>
\* The receivers the node reports, and the values of the currentAccount prop.
Addresses == {xabc, xABC, xdef}
Accounts == Addresses \cup {Undefined}

\* getEtherum(): window.ethereum, or undefined without a wallet.
NoEthereum == "undefined"
Ethereums == {NoEthereum, "window.ethereum"}

\* On-chain timestamps, in seconds.  1700000 stands for 1700000000, whose
\* product with 1000 is beyond the integers TLC computes with.
RawTimes == {1700000}
Amounts == {"0.1", "abc"}

(* String.prototype.toLocaleLowerCase, character by character. *)
LowerChar(c) ==
    CASE c = "A" -> "a"
      [] c = "B" -> "b"
      [] c = "C" -> "c"
      [] OTHER -> c

toLocaleLowerCase(s) == [i \in 1..Len(s) |-> LowerChar(s[i])]

(* ethers.parseEther: a decimal string to wei (a bigint, written out in   *)
(* decimal); anything else throws.                                         *)
ParseError == "throw"

\* Faulty variant (C8): an amount that is no decimal string counts as zero
\* instead of throwing.
parseEtherLenient(tokenInEther) ==
    CASE tokenInEther = "0.1" -> "100000000000000000"
      [] tokenInEther = "1" -> "1000000000000000000"
      [] OTHER -> "0"

parseEther(tokenInEther) ==
    CASE tokenInEther = "0.1" -> "100000000000000000"
      [] tokenInEther = "1" -> "1000000000000000000"
      [] OTHER -> ParseError

(* A contract object: each `new ethers.Contract` is a distinct object (id,  *)
(* counted from 1 in order of creation); it is bound to the signer it was   *)
(* built with.                                                              *)
NoContract == [id |-> 0, signer |-> Undefined]

(* The raw tuples the ledger delivers: NewMessage events and the elements  *)
(* of getOwnMessages' result.                                              *)
RawMessage(s, r, t) ==
    [sender |-> s, receiver |-> r, depositInWei |-> "0", timestamp |-> t,
     text |-> "hi", isPending |-> FALSE]

Events == {RawMessage(xdef, r, t) : r \in Addresses, t \in RawTimes}

(* What the contract's getOwnMessages returns to a signer: the messages     *)
(* stored for msg.sender.  An address is one account whatever its case, and *)
(* the receiver comes back in the case the node reports it in.              *)
StoredFor(signer) ==
    {RawMessage(xdef, r, t) :
        r \in {x \in Addresses : toLocaleLowerCase(x) = toLocaleLowerCase(signer)},
        t \in RawTimes}

(* The statements that can throw or reject, by the function they stand in,  *)
(* and those of them that stand inside the function's try block (lines 74   *)
(* to 104, 119 to 140, 154 to 191).                                         *)
TryBody ==
    [getMessengerContract |-> {"getSigner"},
     getOwnMessages |-> {"getOwnMessages"},
     sendMessage |-> {"parseEther", "post", "wait"}]

\* An async function whose statement throws outside a try block returns a
\* rejected promise.
Thrown == "thrown"

\* Faulty variant (C12): the try block of sendMessage ends before the
\* await of txn.wait().
CompletionWaitOutsideTry(fn, statement, caught) ==
    IF statement \in TryBody[fn] \ {"wait"} THEN caught ELSE Thrown

\* How a call of fn ends when statement fails: in the catch (a log, then a
\* normal return), or by throwing.
Completion(fn, statement, caught) ==
    IF statement \in TryBody[fn] THEN caught ELSE Thrown

SeqsUpTo(S, n) == UNION {[1..k -> S] : k \in 0..n}

VARIABLES
    mounted,            \* the component using the hook is mounted
    currentAccount,     \* the prop, as of the last render
    ethereum,           \* getEtherum(), as of the last render
    processing,         \* useState<boolean>(false)
    ownMessages,        \* useState<Message[]>([])
    messengerContract,  \* useState<Contract>()
    deps,               \* the effects' dependency values at their last run
    listeners,          \* NewMessage listeners registered on contract objects
    connects,           \* getMessengerContract calls awaiting getSigner
    fetches,            \* getOwnMessages calls awaiting the remote read
    sends,              \* sendMessage calls awaiting post or txn.wait
    peak,               \* most listeners registered at once in the last effect run
    last                \* how the last step ended, when it ended a call (an early
                        \* return, a catch), handled an event, or resumed a call
                        \* on another handle than the current; "-" after any
                        \* other step

vars == <<mounted, currentAccount, ethereum, processing, ownMessages,
          messengerContract, deps, listeners, connects, fetches, sends,
          peak, last>>

hookState == <<processing, ownMessages, messengerContract>>
inFlight == <<connects, fetches, sends>>

Init ==
    /\ mounted = TRUE
    /\ currentAccount \in Accounts
    /\ ethereum \in Ethereums
    /\ processing = FALSE
    /\ ownMessages = << >>
    /\ messengerContract = NoContract
    /\ deps = [ran |-> FALSE, contract |-> NoContract]
    /\ listeners = {}
    /\ connects = 0
    /\ fetches = << >>
    /\ sends = << >>
    /\ peak = 0
    /\ last = "init"

(* ------------------------------------------- useEffect, lines 199 to 202 *)
\* The body is the two expression statements `getMessengerContract;` and
\* `getOwnMessages;`, which name the functions without calling them: the set
\* of functions the effect calls is empty.
AccountEffectCalls == {}

\* The effect runs after the first render and after each render in which
\* currentAccount or ethereum changed.  Its body updates nothing, so the
\* moment it runs cannot be observed: it is taken with the render.
AccountEffect ==
    /\ AccountEffectCalls = {}
    /\ UNCHANGED <<hookState, inFlight>>

(* ------------------------------------------------------------- rendering *)
\* The effect of lines 209 to 252 is pending from the render in which
\* messengerContract changed until React runs it; React runs pending effects
\* before it renders again.
EffectsPending ==
    /\ mounted
    /\ (~deps.ran \/ deps.contract # messengerContract)

\* The parent renders with another currentAccount.
SetAccount(a) ==
    /\ mounted /\ ~EffectsPending
    /\ a # currentAccount
    /\ currentAccount' = a
    /\ AccountEffect
    /\ last' = "-"
    /\ UNCHANGED <<mounted, ethereum, deps, listeners, peak>>

\* A render finds another value of getEtherum().
SetEthereum(e) ==
    /\ mounted /\ ~EffectsPending
    /\ e # ethereum
    /\ ethereum' = e
    /\ AccountEffect
    /\ last' = "-"
    /\ UNCHANGED <<mounted, currentAccount, deps, listeners, peak>>

(* ------------------------------------------- useEffect, lines 209 to 252 *)
\* messengerContract.on('NewMessage', onNewMessage): onNewMessage is the
\* closure of the render that ran the effect, so it holds that render's
\* currentAccount.
Register(ls, contract, account) ==
    IF contract # NoContract
    THEN ls \cup {[contract |-> contract, account |-> account]}
    ELSE ls

\* Faulty variant (C14): the cleanup function deregisters nothing.
DeregisterNothing(ls, contract) == ls

\* The cleanup function: messengerContract.off('NewMessage', onNewMessage) on
\* the contract the effect had registered on.
Deregister(ls, contract) ==
    IF contract # NoContract
    THEN {l \in ls : l.contract # contract}
    ELSE ls

\* Faulty variant (C3): the new listener is registered before the old one is
\* deregistered.
ContractEffectRegisterFirst(ls, old, new, account) ==
    <<Register(ls, new, account), Deregister(Register(ls, new, account), old)>>

\* One rerun of the effect: the cleanup returned by the previous run, then the
\* new body.  The listener sets after each of the two steps, in order.
ContractEffect(ls, old, new, account) ==
    <<Deregister(ls, old), Register(Deregister(ls, old), new, account)>>

Max(a, b) == IF a >= b THEN a ELSE b

\* React runs the pending effects: both after the first render, the contract
\* effect alone after a render in which messengerContract changed.
RunEffects ==
    /\ EffectsPending
    /\ LET steps == ContractEffect(listeners, deps.contract, messengerContract,
                                   currentAccount)
       IN  /\ listeners' = steps[2]
           /\ peak' = Max(Cardinality(steps[1]), Cardinality(steps[2]))
    /\ IF deps.ran THEN UNCHANGED <<hookState, inFlight>> ELSE AccountEffect
    /\ deps' = [ran |-> TRUE, contract |-> messengerContract]
    /\ last' = "-"
    /\ UNCHANGED <<mounted, currentAccount, ethereum>>

\* Unmounting runs the cleanup of every effect that ran; React drops a state
\* update made by a continuation that resumes after the unmount, so the
\* suspended calls are dropped with the component.
Unmount ==
    /\ mounted
    /\ mounted' = FALSE
    /\ listeners' = IF deps.ran THEN Deregister(listeners, deps.contract)
                    ELSE listeners
    /\ connects' = 0
    /\ fetches' = << >>
    /\ sends' = << >>
    /\ last' = "-"
    /\ UNCHANGED <<currentAccount, ethereum, hookState, deps, peak>>

(* ----------------------------------------- sendMessage, lines 148 to 194 *)
\* Faulty variant (C18): the amount is converted before the guard on the
\* contract.
SendMessageConvertsFirst(text, receiver, tokenInEther) ==
    /\ mounted
    /\ IF parseEther(tokenInEther) = ParseError
       THEN /\ last' = Completion("sendMessage", "parseEther", "send:catchAmount")
            /\ UNCHANGED sends
       ELSE IF messengerContract = NoContract
       THEN /\ last' = "send:noContract"
            /\ UNCHANGED sends
       ELSE /\ Len(sends) < MaxSends
            /\ sends' = Append(sends, [pc |-> "post",
                                       contract |-> messengerContract.id])
            /\ last' = "-"
    /\ UNCHANGED <<mounted, currentAccount, ethereum, hookState, deps,
                   listeners, connects, fetches, peak>>

\* Up to the first await: the guard on the contract, the conversion of the
\* amount, and the call of post.
SendMessage(text, receiver, tokenInEther) ==
    /\ mounted
    /\ IF messengerContract = NoContract
       THEN /\ last' = "send:noContract"
            /\ UNCHANGED sends
       ELSE IF parseEther(tokenInEther) = ParseError
       THEN /\ last' = Completion("sendMessage", "parseEther", "send:catchAmount")
            /\ UNCHANGED sends
       ELSE /\ Len(sends) < MaxSends
            /\ sends' = Append(sends, [pc |-> "post",
                                       contract |-> messengerContract.id])
            /\ last' = "-"
    /\ UNCHANGED <<mounted, currentAccount, ethereum, hookState, deps,
                   listeners, connects, fetches, peak>>

(* -------------------------------- getMessengerContract, lines 73 to 107 *)
NewContract(id, signer) == [id |-> id, signer |-> signer]

\* The account the wallet signs with, in the lower case the wallet reports
\* (comment of line 220): the connected account; with no connected account
\* the wallet has nothing to sign with and getSigner can only reject.
WalletAccounts ==
    IF currentAccount # Undefined THEN {toLocaleLowerCase(currentAccount)}
    ELSE {}

\* Up to the await of provider.getSigner().
GetMessengerContract ==
    /\ mounted
    /\ IF ethereum # NoEthereum
       THEN /\ connects < MaxConnects
            /\ connects' = connects + 1
            /\ last' = "-"
       ELSE /\ UNCHANGED connects
            /\ last' = "connect:noEthereum"
    /\ UNCHANGED <<mounted, currentAccount, ethereum, hookState, deps,
                   listeners, fetches, sends, peak>>

\* getSigner resolved: new ethers.Contract(...), setMessengerContract.
SignerResolved(signer) ==
    /\ mounted /\ ~EffectsPending
    /\ connects > 0
    /\ messengerContract.id < MaxHandles
    /\ connects' = connects - 1
    /\ messengerContract' = NewContract(messengerContract.id + 1, signer)
    /\ last' = "-"
    /\ UNCHANGED <<mounted, currentAccount, ethereum, processing, ownMessages,
                   deps, listeners, fetches, sends, peak>>

\* getSigner rejected: the catch logs.
SignerRejected ==
    /\ mounted
    /\ connects > 0
    /\ connects' = connects - 1
    /\ last' = Completion("getMessengerContract", "getSigner", "connect:catch")
    /\ UNCHANGED <<mounted, currentAccount, ethereum, hookState, deps,
                   listeners, fetches, sends, peak>>

(* -------------------------------------- getOwnMessages, lines 113 to 143 *)
\* Faulty variant (C13): the time value is taken over as it is.
DateOfSeconds(timestamp) == timestamp

\* new Date(message.timestamp.getTime() * 1000): a Date is its time value.
DateOf(timestamp) == timestamp * 1000

CleanMessage(message) ==
    [sender |-> message.sender,
     receiver |-> message.receiver,
     depositInWei |-> message.depositInWei,
     timestamp |-> DateOf(message.timestamp),
     text |-> message.text,
     isPending |-> message.isPending]

messageCleaned(messageList) ==
    [i \in 1..Len(messageList) |-> CleanMessage(messageList[i])]

\* Faulty variant (C17): the continuation drops the list it received.
OwnMessagesAfterFetchDropped(prevMessages, resolved, messageList) ==
    prevMessages

\* Faulty variant (C9): the catch empties the cache.
OwnMessagesAfterFetchClearing(prevMessages, resolved, messageList) ==
    IF resolved THEN messageCleaned(messageList) ELSE << >>

\* ownMessages after the try block: setOwnMessages(messageCleaned) when the
\* read resolved, the catch (a log) when it threw.
OwnMessagesAfterFetch(prevMessages, resolved, messageList) ==
    IF resolved THEN messageCleaned(messageList) ELSE prevMessages

\* A suspended read whose contract is no longer the hook's, or whose signer
\* is no longer the identity; a suspended submission whose contract is no
\* longer the hook's.  The code compares neither: the continuations of lines
\* 125 to 139 and 172 to 188 run whatever the current state is.
StaleFetch(fetch) ==
    \/ fetch # messengerContract
    \/ fetch.signer # toLocaleLowerCase(currentAccount)

StaleSend(send) == send.contract # messengerContract.id

RemoveAt(q, i) == [j \in 1..(Len(q) - 1) |-> IF j < i THEN q[j] ELSE q[j + 1]]

\* Up to the await of messengerContract.getOwnMessages().
GetOwnMessages ==
    /\ mounted
    /\ IF messengerContract = NoContract
       THEN /\ UNCHANGED fetches
            /\ last' = "fetch:noContract"
       ELSE /\ Len(fetches) < MaxFetches
            /\ fetches' = Append(fetches, messengerContract)
            /\ last' = "-"
    /\ UNCHANGED <<mounted, currentAccount, ethereum, hookState, deps,
                   listeners, connects, sends, peak>>

FetchResolved(i, messageList) ==
    /\ mounted
    /\ i \in 1..Len(fetches)
    /\ Len(messageList) <= MaxMsgs
    /\ ownMessages' = OwnMessagesAfterFetch(ownMessages, TRUE, messageList)
    /\ fetches' = RemoveAt(fetches, i)
    /\ last' = IF StaleFetch(fetches[i]) THEN "fetch:stale" ELSE "-"
    /\ UNCHANGED <<mounted, currentAccount, ethereum, processing,
                   messengerContract, deps, listeners, connects, sends, peak>>

FetchRejected(i) ==
    /\ mounted
    /\ i \in 1..Len(fetches)
    /\ ownMessages' = OwnMessagesAfterFetch(ownMessages, FALSE, << >>)
    /\ fetches' = RemoveAt(fetches, i)
    /\ last' = Completion("getOwnMessages", "getOwnMessages", "fetch:catch")
    /\ UNCHANGED <<mounted, currentAccount, ethereum, processing,
                   messengerContract, deps, listeners, connects, sends, peak>>

(* ------------------------- sendMessage after its awaits, lines 166 to 193 *)
\* Faulty variant (C19): the catch resets processing.
ProcessingAfterCatchResets(prev, resumed) ==
    CASE resumed = "post:resolved" -> TRUE
      [] OTHER -> FALSE

\* Faulty variant (C6): setProcessing(true) is missing.
ProcessingAfterNoSet(prev, resumed) ==
    CASE resumed = "wait:resolved" -> FALSE
      [] OTHER -> prev

\* processing after each way a suspended sendMessage resumes: post resolved
\* (setProcessing(true)), txn.wait resolved (setProcessing(false)), either
\* rejected (the catch logs).
ProcessingAfter(prev, resumed) ==
    CASE resumed = "post:resolved" -> TRUE
      [] resumed = "wait:resolved" -> FALSE
      [] OTHER -> prev

PostResolved(i) ==
    /\ mounted
    /\ i \in 1..Len(sends)
    /\ sends[i].pc = "post"
    /\ sends' = [sends EXCEPT ![i].pc = "wait"]
    /\ processing' = ProcessingAfter(processing, "post:resolved")
    /\ last' = IF StaleSend(sends[i]) THEN "send:stale" ELSE "-"
    /\ UNCHANGED <<mounted, currentAccount, ethereum, ownMessages,
                   messengerContract, deps, listeners, connects, fetches, peak>>

PostRejected(i) ==
    /\ mounted
    /\ i \in 1..Len(sends)
    /\ sends[i].pc = "post"
    /\ sends' = RemoveAt(sends, i)
    /\ processing' = ProcessingAfter(processing, "post:rejected")
    /\ last' = Completion("sendMessage", "post", "send:catchPost")
    /\ UNCHANGED <<mounted, currentAccount, ethereum, ownMessages,
                   messengerContract, deps, listeners, connects, fetches, peak>>

WaitResolved(i) ==
    /\ mounted
    /\ i \in 1..Len(sends)
    /\ sends[i].pc = "wait"
    /\ sends' = RemoveAt(sends, i)
    /\ processing' = ProcessingAfter(processing, "wait:resolved")
    /\ last' = IF StaleSend(sends[i]) THEN "send:stale" ELSE "-"
    /\ UNCHANGED <<mounted, currentAccount, ethereum, ownMessages,
                   messengerContract, deps, listeners, connects, fetches, peak>>

WaitRejected(i) ==
    /\ mounted
    /\ i \in 1..Len(sends)
    /\ sends[i].pc = "wait"
    /\ sends' = RemoveAt(sends, i)
    /\ processing' = ProcessingAfter(processing, "wait:rejected")
    /\ last' = Completion("sendMessage", "wait", "send:catchWait")
    /\ UNCHANGED <<mounted, currentAccount, ethereum, ownMessages,
                   messengerContract, deps, listeners, connects, fetches, peak>>

(* ---------------------------------------- onNewMessage, lines 211 to 237 *)
\* The test of line 221; currentAccount is the closure's.
Admits(receiver, account) == toLocaleLowerCase(receiver) = account

onNewMessage(prevMessages, event, account) ==
    IF Admits(event.receiver, account)
    THEN Append(prevMessages, CleanMessage(event))
    ELSE prevMessages

\* The ledger emits a NewMessage event and ethers calls a registered listener.
NewMessage(event, l) ==
    /\ mounted
    /\ l \in listeners
    /\ Len(onNewMessage(ownMessages, event, l.account)) <= MaxMsgs
    /\ ownMessages' = onNewMessage(ownMessages, event, l.account)
    /\ last' = IF Admits(event.receiver, l.account) THEN "event:append"
               ELSE "event:discard"
    /\ UNCHANGED <<mounted, currentAccount, ethereum, processing,
                   messengerContract, deps, listeners, inFlight, peak>>

Next ==
    \/ \E a \in Accounts : SetAccount(a)
    \/ \E e \in Ethereums : SetEthereum(e)
    \/ RunEffects
    \/ \E r \in Addresses, amt \in Amounts : SendMessage("hi", r, amt)
    \/ Unmount

Spec == Init /\ [][Next]_vars

\* The connection: getMessengerContract applied from the current render.
Connect ==
    \/ GetMessengerContract
    \/ \E signer \in WalletAccounts : SignerResolved(signer)
    \/ SignerRejected

Render ==
    \/ \E a \in Accounts : SetAccount(a)
    \/ \E e \in Ethereums : SetEthereum(e)
    \/ RunEffects
    \/ Unmount

\* The records half: connection, historical read, live events.
NextSync ==
    \/ Render
    \/ Connect
    \/ GetOwnMessages
    \/ \E i \in DOMAIN fetches :
         \E messageList \in SeqsUpTo(StoredFor(fetches[i].signer), MaxFetched) :
           FetchResolved(i, messageList)
    \/ \E i \in DOMAIN fetches : FetchRejected(i)
    \/ \E event \in Events : \E l \in listeners : NewMessage(event, l)

SpecSync == Init /\ [][NextSync]_vars

\* The submission half: connection and the sendMessage lifecycle.
NextSend ==
    \/ Render
    \/ Connect
    \/ \E r \in Addresses, amt \in Amounts : SendMessage("hi", r, amt)
    \/ \E i \in DOMAIN sends : PostResolved(i)
    \/ \E i \in DOMAIN sends : PostRejected(i)
    \/ \E i \in DOMAIN sends : WaitResolved(i)
    \/ \E i \in DOMAIN sends : WaitRejected(i)

SpecSend == Init /\ [][NextSend]_vars

\* Both halves together: every function of the hook and every continuation.
NextCalls ==
    \/ NextSync
    \/ NextSend

SpecCalls == Init /\ [][NextCalls]_vars

\* SpecSync with what the runtime schedules by itself: pending effects run and
\* awaited promises settle.  The direct applications are inputs and stay
\* unforced.
SpecSyncFair ==
    /\ SpecSync
    /\ WF_vars(RunEffects)
    /\ WF_vars(SignerRejected \/ \E signer \in WalletAccounts : SignerResolved(signer))
    /\ WF_vars(\E i \in DOMAIN fetches :
                  \/ FetchRejected(i)
                  \/ \E messageList \in SeqsUpTo(StoredFor(fetches[i].signer), MaxFetched) :
                       FetchResolved(i, messageList))

(* ================================================================ claims *)
IsPrefix(p, q) == Len(p) <= Len(q) /\ \A i \in 1..Len(p) : p[i] = q[i]

Contracts == {NewContract(id, signer) : id \in 1..MaxHandles,
                                       signer \in {toLocaleLowerCase(a) : a \in Addresses}}

\* C1: every record of ownMessages has a receiver that, lower-cased, equals
\* the current identity lower-cased, whatever identity changes, rebuilds,
\* backfills and events came before.
C1_OnlyCurrentIdentity ==
    \A i \in 1..Len(ownMessages) :
        toLocaleLowerCase(ownMessages[i].receiver) = toLocaleLowerCase(currentAccount)

\* C2: the event callback appends the event's record if and only if the
\* event's receiver and the current identity are equal when both are
\* lower-cased; otherwise it leaves ownMessages as it was.
C2_AdmitIffSameLowerCase ==
    [][\A event \in Events : \A l \in listeners :
         NewMessage(event, l) =>
           /\ (toLocaleLowerCase(event.receiver) = toLocaleLowerCase(currentAccount))
                => ownMessages' = Append(ownMessages, CleanMessage(event))
           /\ (toLocaleLowerCase(event.receiver) # toLocaleLowerCase(currentAccount))
                => ownMessages' = ownMessages]_vars

\* C3: at most one NewMessage listener is registered at any time, also inside
\* an effect run (the old one is deregistered before the new one is
\* registered), and a registered listener is on the contract the effect last
\* ran with, never on an older one.
C3_OneListener ==
    /\ Cardinality(listeners) <= 1
    /\ peak <= 1
    /\ \A l \in listeners : l.contract = deps.contract

\* The handle changed twice and the listener of the second handle is
\* registered.
C3_Witness ==
    /\ deps.contract.id = 2
    /\ \E l \in listeners : l.contract = messengerContract

\* C4: with no identity there is no handle, no record and processing is false
\* at the start; and once the effects of a render with an identity and a
\* provider have run and no getSigner is outstanding, a handle for that
\* identity is in place.
C4_HandleFormed ==
    /\ (last = "init" /\ currentAccount = Undefined) =>
          (messengerContract = NoContract /\ ownMessages = << >> /\ ~processing)
    /\ (mounted /\ deps.ran /\ currentAccount # Undefined
          /\ ethereum # NoEthereum /\ connects = 0 /\ last # "connect:catch") =>
          (messengerContract # NoContract
             /\ messengerContract.signer = toLocaleLowerCase(currentAccount))

\* C5: once a handle is bound, getOwnMessages is eventually called on it (the
\* remote read is issued on that handle), unless the component unmounts.
C5_BackfillOnRebind ==
    \A h \in Contracts :
        [](messengerContract = h =>
             <>(~mounted \/ \E i \in DOMAIN fetches : fetches[i] = h))

\* C6 as claimed: whenever an accepted submission has neither settled nor
\* failed, processing is true.
C6_ProcessingWhileAccepted ==
    (mounted /\ \E i \in DOMAIN sends : sends[i].pc = "wait") => processing

\* C6 as amended: the acceptance of a submission sets processing, and
\* processing goes from true to false only in the step in which an accepted
\* submission settles.
C6_TrueFromAcceptanceToNextSettlement ==
    [][/\ (\E i \in DOMAIN sends : PostResolved(i)) => processing'
       /\ (processing /\ ~processing') => \E i \in DOMAIN sends : WaitResolved(i)]_vars

\* Two accepted submissions are awaiting settlement and processing is true.
C6_Witness ==
    /\ processing
    /\ Len(sends) = 2
    /\ \A i \in DOMAIN sends : sends[i].pc = "wait"

\* C7: whenever processing is true some accepted submission has neither
\* settled nor failed.
C7_ProcessingOnlyInFlight ==
    (mounted /\ processing) => \E i \in DOMAIN sends : sends[i].pc = "wait"

Malformed == {"abc"}

\* C8: a sendMessage whose amount is not a decimal string calls no post and
\* leaves processing and ownMessages as they were.
C8_MalformedAmountNoPost ==
    [][\A r \in Addresses : \A amt \in Malformed :
         SendMessage("hi", r, amt) => UNCHANGED <<sends, processing, ownMessages>>]_vars

\* A sendMessage on a bound handle ended in the catch at the conversion.
C8_Witness ==
    /\ last = "send:catchAmount"
    /\ messengerContract # NoContract

\* C9: a historical read that fails writes nothing to ownMessages.
C9_FailedFetchWritesNothing ==
    [][(\E i \in DOMAIN fetches : FetchRejected(i)) => ownMessages' = ownMessages]_vars

\* A read failed while ownMessages held records.
C9_Witness ==
    /\ last = "fetch:catch"
    /\ ownMessages # << >>

\* C10: while identity and handle stay the same, each step leaves the previous
\* ownMessages as a prefix of the new one.
C10_AppendOnly ==
    [][(mounted' /\ currentAccount' = currentAccount
          /\ messengerContract' = messengerContract)
         => IsPrefix(ownMessages, ownMessages')]_vars

\* C11: after a getMessengerContract that failed to obtain a signer (no
\* provider, or getSigner rejected) no handle is in place, not even one built
\* by an earlier call.
C11_FailedRebuildLeavesNoHandle ==
    (mounted /\ last \in {"connect:noEthereum", "connect:catch"})
        => messengerContract = NoContract

\* C12: no call of getMessengerContract, getOwnMessages or sendMessage ends by
\* throwing: every failure of getSigner, the remote read, parseEther, post and
\* txn.wait ends in the catch of its function.
C12_NoFailurePropagates == last # Thrown

\* txn.wait() rejected, the call ended in its catch, and the failure shows in
\* processing, which stays true with nothing in flight.
C12_Witness ==
    /\ last = "send:catchWait"
    /\ processing
    /\ sends = << >>

\* C13: every record of ownMessages, from the historical read and from the
\* event callback alike, carries the raw timestamp in seconds multiplied by
\* 1000 (raw 1700000 gives 1700000000).
C13_TimestampTimes1000 ==
    \A i \in DOMAIN ownMessages :
        /\ \E t \in RawTimes : ownMessages[i].timestamp = t * 1000
        /\ ownMessages[i].timestamp = 1700000000

\* The cache holds two records, the second appended by the event callback.
C13_Witness ==
    /\ Len(ownMessages) = 2
    /\ last = "event:append"

\* C14: a listener is registered only by the effect run that follows the
\* binding of a handle, on that handle, and on no handle the effect ran with
\* before (once per handle); from the binding of a handle to that effect run
\* nothing else changes the handle or the listeners, short of the unmount; a
\* render with another identity registers nothing; after the unmount no
\* listener is registered on any handle.
C14_AttachOncePerHandle ==
    [][/\ \A l \in listeners' \ listeners :
            /\ EffectsPending
            /\ l.contract = messengerContract
            /\ l.contract.id > deps.contract.id
            /\ deps'.contract = l.contract
       /\ (EffectsPending /\ messengerContract # NoContract /\ mounted') =>
            \/ /\ messengerContract' = messengerContract
               /\ listeners' = listeners
               /\ deps' = deps
            \/ /\ messengerContract' = messengerContract
               /\ deps'.contract = messengerContract
               /\ listeners' = {[contract |-> messengerContract,
                                 account |-> currentAccount]}
       /\ (\E a \in Accounts : SetAccount(a)) => listeners' = listeners
       /\ ~mounted' => listeners' = {}]_vars

\* The component unmounted after the effect had registered a listener on a
\* second handle, and no listener is left.
C14_Witness ==
    /\ ~mounted
    /\ deps.contract.id = 2
    /\ listeners = {}

\* C15: the remote read of a rebuild is issued only when the signer
\* acquisition of that rebuild has completed (none is outstanding), on the
\* handle bound by it, never on an absent handle; and a listener is
\* registered only on the handle that is bound, never on an absent one.
C15_RebuildOrdered ==
    [][/\ (Len(fetches') > Len(fetches)) =>
             /\ connects = 0
             /\ messengerContract # NoContract
             /\ fetches'[Len(fetches')] = messengerContract
       /\ \A l \in listeners' \ listeners :
             /\ l.contract # NoContract
             /\ l.contract = messengerContract]_vars

\* C16: a delivered event that the test of line 221 admits appends exactly
\* its record at the end of ownMessages, an equal record already there
\* notwithstanding, and no later step of any continuation loses it: the
\* step after an admitted delivery keeps ownMessages as a prefix.
C16_AdmittedEventsAccumulate ==
    [][/\ \A event \in Events : \A l \in listeners :
             (NewMessage(event, l) /\ Admits(event.receiver, l.account))
                => ownMessages' = Append(ownMessages, CleanMessage(event))
       /\ (last = "event:append" /\ mounted')
             => IsPrefix(ownMessages, ownMessages')]_vars

\* C17: the continuations carry no staleness guard.  A read that resolves
\* after the handle or the identity changed still replaces ownMessages with
\* its list, and a submission whose post or wait resolves after the handle
\* changed still sets or clears processing.  (last' is "fetch:stale" or
\* "send:stale" exactly in those steps.)
C17_StaleResultsStillWrite ==
    [][/\ (last' = "fetch:stale") =>
             \A i \in DOMAIN fetches :
               \A messageList \in SeqsUpTo(StoredFor(fetches[i].signer), MaxFetched) :
                 (StaleFetch(fetches[i]) /\ FetchResolved(i, messageList))
                    => ownMessages' = messageCleaned(messageList)
       /\ (last' = "send:stale") =>
             \A i \in DOMAIN sends :
               /\ (StaleSend(sends[i]) /\ PostResolved(i)) => processing'
               /\ (StaleSend(sends[i]) /\ WaitResolved(i)) => ~processing']_vars

\* A read issued for one identity resolved under another: ownMessages holds
\* records that are not the current identity's.
C17_Witness ==
    /\ last = "fetch:stale"
    /\ ownMessages # << >>
    /\ \A i \in DOMAIN ownMessages :
          toLocaleLowerCase(ownMessages[i].receiver) # toLocaleLowerCase(currentAccount)

\* C18: with no handle, sendMessage returns at its guard: it converts no
\* amount (a malformed one does not reach the catch), calls no post and
\* leaves processing, ownMessages and the handle as they were; and an effect
\* run with no handle, before and after, registers and deregisters nothing.
C18_NoHandleNoOp ==
    [][messengerContract = NoContract =>
         /\ \A r \in Addresses : \A amt \in Amounts :
               SendMessage("hi", r, amt) =>
                 /\ last' = "send:noContract"
                 /\ UNCHANGED <<sends, hookState>>
         /\ (RunEffects /\ deps.contract = NoContract) =>
               /\ listeners' = listeners
               /\ peak' = Cardinality(listeners)]_vars

\* sendMessage returned at its guard after the effects had run with no
\* handle.
C18_Witness ==
    /\ last = "send:noContract"
    /\ deps.ran
    /\ deps.contract = NoContract
    /\ listeners = {}

\* C19: a sendMessage whose post rejects leaves processing and ownMessages
\* as they were, at the call and at the rejection, whatever other
\* submissions are in flight.
C19_RejectedPostWritesNothing ==
    [][/\ (\E r \in Addresses, amt \in Amounts : SendMessage("hi", r, amt))
             => UNCHANGED <<processing, ownMessages>>
       /\ (\E i \in DOMAIN sends : PostRejected(i))
             => UNCHANGED <<processing, ownMessages>>]_vars

\* A post was rejected while another submission was accepted and awaiting
\* settlement; processing is still true.
C19_Witness ==
    /\ last = "send:catchPost"
    /\ processing
    /\ \E i \in DOMAIN sends : sends[i].pc = "wait"

====
